---- MODULE Spec2Model ----
(***************************************************************************)
(* Model of optimagic's benchmark visualisation code:                      *)
(*   src/optimagic/visualization/profile_plot.py                           *)
(*   src/optimagic/visualization/deviation_plot.py                         *)
(*   src/optimagic/visualization/backends.py                               *)
(*                                                                         *)
(* A state is one call in flight: the arguments of the call (chosen in     *)
(* Init), and, once the call has run, everything it computed and the way   *)
(* it ended.  Every public function is one action.                         *)
(*                                                                         *)
(* Numbers.  A float is a record [k, v, e]: k is "num", "inf" or "nan";    *)
(* a "num" stands for the exact real  v / Unit + (e / Fine) * 1e-10.       *)
(* Unit is chosen so that every quotient, every product with 1.05 and      *)
(* every midpoint the code forms is an integer number of units, hence the  *)
(* arithmetic below is exact.  The e part never exceeds 1.05 * Fine, i.e.  *)
(* 1.05e-10, which is far below 1 / Unit, so comparing (v, e)              *)
(* lexicographically is comparing the reals.  Floating-point rounding is   *)
(* not modelled.                                                           *)
(***************************************************************************)
EXTENDS Integers, Sequences, FiniteSets, TLC

\* ------------------------------------------------------------------ bounds
\* largest value of the runtime-measure column in a tidy table
MaxRuntime == 3
\* largest number of rows of a tidy table
MaxRows == 3
\* largest value of the (scaled) outcome column in a tidy table
MaxOutcome == 2
\* largest number of LineData entries handed to line_plot directly
MaxLines == 2

Problems == {"p1", "p2"}
Algorithms == {"a1", "a2"}
Colors == {"c1", "c2"}

\* ----------------------------------------------------------------- numbers
RECURSIVE Gcd(_, _)
Gcd(a, b) == IF b = 0 THEN a ELSE Gcd(b, a % b)

RECURSIVE LcmUpTo(_)
LcmUpTo(n) == IF n <= 1 THEN 1 ELSE (LcmUpTo(n - 1) * n) \div Gcd(LcmUpTo(n - 1), n)

\* e-units per 1e-10: room for one product with 105/100 and one halving
Fine == 2 * 100
\* v-units per 1.0: additionally room for a quotient of two runtimes
Unit == Fine * LcmUpTo(MaxRuntime)

Num(v, e) == [k |-> "num", v |-> v, e |-> e]
INF == [k |-> "inf", v |-> 0, e |-> 0]
NAN == [k |-> "nan", v |-> 0, e |-> 0]

\* astype(float) of an integer count
AsFloat(t) == Num(t * Unit, 0)

isfinite(x) == x.k = "num"

\* x <= y of two floats; every comparison with NaN is False
Leq(x, y) ==
    CASE x.k = "nan" \/ y.k = "nan" -> FALSE
      [] y.k = "inf" -> TRUE
      [] x.k = "inf" -> FALSE
      [] OTHER -> x.v < y.v \/ (x.v = y.v /\ x.e <= y.e)

\* x / y of two floats (no eps part, no negative value reaches a division)
Divide(x, y) ==
    CASE x.k = "nan" \/ y.k = "nan" -> NAN
      [] x.k = "inf" /\ y.k = "inf" -> NAN
      [] x.k = "inf" -> INF
      [] y.k = "inf" -> Num(0, 0)
      [] y.v = 0 -> IF x.v = 0 THEN NAN ELSE INF
      [] OTHER -> Num((x.v * Unit) \div y.v, 0)

\* x + 1e-10
AddEps(x) == IF x.k = "num" THEN Num(x.v, x.e + Fine) ELSE x

\* x * n / d for a finite x
Times(x, n, d) == Num((x.v * n) \div d, (x.e * n) \div d)

\* (x + y) / 2 for finite x, y
Half(x, y) == Num((x.v + y.v) \div 2, (x.e + y.e) \div 2)

\* sorted(): ascending, duplicates kept
RECURSIVE Insert(_, _)
Insert(s, x) ==
    IF s = << >> THEN << x >>
    ELSE IF Leq(x, Head(s)) THEN << x >> \o s
    ELSE << Head(s) >> \o Insert(Tail(s), x)

RECURSIVE sorted(_)
sorted(s) == IF s = << >> THEN << >> ELSE Insert(sorted(Tail(s)), Head(s))

\* every name in ascending (lexicographic) order, as pandas sorts group keys
NameOrder == << "a1", "a2", "p1", "p2" >>

\* the elements of a set of names in ascending order
SortedNames(S) == SelectSeq(NameOrder, LAMBDA n : n \in S)

Range(s) == {s[i] : i \in 1..Len(s)}

\* -------------------------------------------------------------- tidy table
\* A row of the tidy table: problem, algorithm, the value of the column
\* chosen as runtime measure and the value of the chosen outcome column.
\* Runtimes are positive counts: the normalized distance at the start of a
\* run is 1, so a run that converged has a positive solution time.
Rows == [problem : Problems, algorithm : Algorithms,
         runtime : 1..MaxRuntime, outcome : 0..MaxOutcome]

\* A problem-by-algorithm table: its index, its columns and its cells.
Table(index, columns, val) == [index |-> index, columns |-> columns, val |-> val]
EmptyTable == Table({}, {}, << >>)

Max(S) == CHOOSE x \in S : \A y \in S : y <= x
Min(S) == CHOOSE x \in S : \A y \in S : x <= y

\* ------------------------------------------------- create_solution_times
\* df.groupby(["problem", "algorithm"])[runtime_measure].max().unstack():
\* a pair without a row is NaN
GroupMaxUnstack(df) ==
    LET index == {r.problem : r \in df}
        columns == {r.algorithm : r \in df}
        group(p, a) == {r.runtime : r \in {q \in df : q.problem = p /\ q.algorithm = a}}
    IN Table(index, columns,
             [c \in index \X columns |->
                 IF group(c[1], c[2]) = {} THEN NAN
                 ELSE AsFloat(Max(group(c[1], c[2])))])

\* DataFrame.where(cond, other): a cell is kept where cond is True
Where(t, cond, other) ==
    Table(t.index, t.columns,
          [c \in t.index \X t.columns |-> IF cond[c] THEN t.val[c] ELSE other])

\* DataFrame.stack().reset_index(): one row per cell that is not NaN
StackDropInf(t) ==
    {[problem |-> c[1], algorithm |-> c[2], runtime |-> t.val[c]] :
        c \in {d \in t.index \X t.columns : t.val[d].k = "num"}}
Stack(t) ==
    {[problem |-> c[1], algorithm |-> c[2], runtime |-> t.val[c]] :
        c \in {d \in t.index \X t.columns : t.val[d].k # "nan"}}

create_solution_times(df, runtime_measure, converged_info, return_tidy) ==
    LET solution_times == Where(GroupMaxUnstack(df), converged_info, INF)
    IN IF return_tidy THEN solution_times ELSE Stack(solution_times)

\* ------------------------------------------------------------ profile_plot
\* DataFrame.min(axis=1): the smallest cell of a row, NaN cells skipped
RowMin(t, p) ==
    LET cells == {t.val[<<p, a>>] : a \in t.columns} \ {NAN}
    IN IF cells = {} THEN NAN
       ELSE CHOOSE x \in cells : \A y \in cells : Leq(x, y)

\* solution_times.divide(solution_times.min(axis=1), axis=0)
DivideByColumnMin(t) ==
    LET ColumnMin(a) ==
            LET cells == {t.val[<<p, a>>] : p \in t.index} \ {NAN}
            IN IF cells = {} THEN NAN
               ELSE CHOOSE x \in cells : \A y \in cells : Leq(x, y)
    IN Table(t.index, t.columns,
             [c \in t.index \X t.columns |-> Divide(t.val[c], ColumnMin(c[2]))])
DivideRows(t) ==
    Table(t.index, t.columns,
          [c \in t.index \X t.columns |-> Divide(t.val[c], RowMin(t, c[1]))])

\* solution_times[~converged_info] = np.inf
SetInfKeep(t, converged_info) == t
SetInf(t, converged_info) ==
    Table(t.index, t.columns,
          [c \in t.index \X t.columns |-> IF ~converged_info[c] THEN INF ELSE t.val[c]])

\* lines 99-101
Normalize(t, converged_info) == SetInf(DivideRows(t), converged_info)

\* np.unique: the distinct values in ascending order, NaN last
RECURSIVE SortSet(_)
SortSet(S) ==
    IF S = {} THEN << >>
    ELSE IF S = {NAN} THEN << NAN >>
    ELSE LET m == CHOOSE x \in S \ {NAN} : \A y \in S \ {NAN} : Leq(x, y)
         IN << m >> \o SortSet(S \ {m})

unique(t) == SortSet({t.val[c] : c \in t.index \X t.columns})

find_switch_points_no_eps(solution_times) ==
    SelectSeq(unique(solution_times), isfinite)
find_switch_points(solution_times) ==
    LET switch_points == unique(solution_times)
        nudged == [i \in 1..Len(switch_points) |-> AddEps(switch_points[i])]
    IN SelectSeq(nudged, isfinite)

\* the grid of a non-empty sequence of switch points (lines 203-207)
alpha_grid_no_extension(switch_points) ==
    LET extended_switch_points == Append(switch_points, switch_points[Len(switch_points)])
        mid_points == [i \in 1..Len(extended_switch_points) - 1 |->
                          Half(extended_switch_points[i], extended_switch_points[i + 1])]
    IN sorted(extended_switch_points \o mid_points)
alpha_grid_unsorted(switch_points) ==
    LET point_to_right == Times(switch_points[Len(switch_points)], 105, 100)
        extended_switch_points == Append(switch_points, point_to_right)
        mid_points == [i \in 1..Len(extended_switch_points) - 1 |->
                          Half(extended_switch_points[i], extended_switch_points[i + 1])]
    IN extended_switch_points \o mid_points
alpha_grid(switch_points) ==
    LET point_to_right == Times(switch_points[Len(switch_points)], 105, 100)
        extended_switch_points == Append(switch_points, point_to_right)
        mid_points == [i \in 1..Len(extended_switch_points) - 1 |->
                          Half(extended_switch_points[i], extended_switch_points[i + 1])]
    IN sorted(extended_switch_points \o mid_points)

\* _determine_alpha_grid: switch_points[-1] of an empty array is an IndexError
determine_alpha_grid_empty_ok(solution_times) ==
    LET switch_points == find_switch_points(solution_times)
    IN IF switch_points = << >> THEN [error |-> "none", alphas |-> << >>]
       ELSE [error |-> "none", alphas |-> alpha_grid(switch_points)]
determine_alpha_grid(solution_times) ==
    LET switch_points == find_switch_points(solution_times)
    IN IF switch_points = << >> THEN [error |-> "IndexError", alphas |-> << >>]
       ELSE [error |-> "none", alphas |-> alpha_grid(switch_points)]

\* the keys of {alpha: ... for alpha in alphas}, in the order groupby("alpha")
\* gives them: ascending, each once
RECURSIVE Dedup(_)
Dedup(s) ==
    IF Len(s) <= 1 THEN s
    ELSE IF s[1] = s[2] THEN Dedup(Tail(s))
    ELSE << s[1] >> \o Dedup(Tail(s))

\* The mean over the problems of (solution_times[problem, algorithm] <= alpha),
\* kept as the fraction num / den.
ShareSolved(t, a, alpha) ==
    [num |-> Cardinality({p \in t.index : Leq(t.val[<<p, a>>], alpha)}),
     den |-> Cardinality(t.index)]

\* lines 104-108: per algorithm, the share at every alpha
performance_profiles(t, alphas) ==
    [a \in t.columns |-> [i \in 1..Len(Dedup(alphas)) |-> ShareSolved(t, a, Dedup(alphas)[i])]]

\* ---------------------------------------------------------------- LineData
\* LineData(x, y, name, color): show_in_legend is left at its default
LineData(x, y, name, color) ==
    [x |-> x, y |-> y, name |-> name, color |-> color, show_in_legend |-> TRUE]

\* DEFAULT_PALETTE, and the n-th value of itertools.cycle over it
DEFAULT_PALETTE == << "c1", "c2" >>
PaletteCycle(n) == DEFAULT_PALETTE[((n - 1) % Len(DEFAULT_PALETTE)) + 1]

\* ---------------------------------------------------------------- backends
\* A chart is the backend that drew it and one trace per line drawn: the
\* colour of the line, the label it carries (its name, or "None") and
\* whether the chart's legend lists it.
NoFig == [backend |-> "none", traces |-> << >>]
NoMessage == [value |-> "none", alternatives |-> {}]

\* fig.add_trace(go.Scatter(..., name=line.name, line=dict(color=line.color))):
\* showlegend is not set, so every trace is a legend item; plotly draws the
\* legend once the figure has two or more of them
line_plot_plotly(lines) ==
    [backend |-> "plotly",
     traces |-> [i \in 1..Len(lines) |->
                   [color |-> lines[i].color, label |-> lines[i].name,
                    legend |-> Len(lines) >= 2]]]

\* ax.plot / sns.lineplot / fig.line with
\* label=line.name if line.show_in_legend else None
labelled_if_shown(name, lines) ==
    [backend |-> name,
     traces |-> [i \in 1..Len(lines) |->
                   [color |-> lines[i].color,
                    label |-> IF lines[i].show_in_legend THEN lines[i].name ELSE "None",
                    legend |-> lines[i].show_in_legend]]]

line_plot_matplotlib(lines) == labelled_if_shown("matplotlib", lines)
line_plot_seaborn(lines) == labelled_if_shown("seaborn", lines)
line_plot_bokeh(lines) == labelled_if_shown("bokeh", lines)

\* the distinct values of a sequence in the order of their first appearance
RECURSIVE FirstSeen(_)
FirstSeen(s) ==
    IF s = << >> THEN << >>
    ELSE LET front == FirstSeen(SubSeq(s, 1, Len(s) - 1))
         IN IF s[Len(s)] \in Range(front) THEN front ELSE Append(front, s[Len(s)])

\* alt.Chart(data).mark_line().encode(color=alt.Color("color"), tooltip=["name"]):
\* the points of all lines in one frame, one line per value of the colour
\* column, every value listed in the colour legend, the name only a tooltip
line_plot_altair(lines) ==
    LET colors == FirstSeen([i \in 1..Len(SelectSeq(lines, LAMBDA l : l.x # << >>)) |->
                                SelectSeq(lines, LAMBDA l : l.x # << >>)[i].color])
    IN [backend |-> "altair",
        traces |-> [i \in 1..Len(colors) |->
                      [color |-> colors[i], label |-> colors[i], legend |-> TRUE]]]

\* the keys of BACKEND_TO_LINE_PLOT_FUNC, in the order of the dict
BACKEND_TO_LINE_PLOT_FUNC == << "plotly", "matplotlib", "seaborn", "bokeh", "altair" >>

\* IS_<LIB>_INSTALLED of the backend's library; plotly is imported unconditionally
IsInstalled(name, installed) == name = "plotly" \/ installed[name]

AlwaysInstalled(name, installed) == TRUE
\* the "if not IS_..._INSTALLED: raise NotInstalledError" of a render function
RenderGuard(name, installed) == IsInstalled(name, installed)

Render(name, lines) ==
    CASE name = "plotly" -> line_plot_plotly(lines)
      [] name = "matplotlib" -> line_plot_matplotlib(lines)
      [] name = "seaborn" -> line_plot_seaborn(lines)
      [] name = "bokeh" -> line_plot_bokeh(lines)
      [] name = "altair" -> line_plot_altair(lines)

\* line_plot: what it raises or returns, and the render function it invoked
line_plot(lines, name, installed) ==
    IF name \notin Range(BACKEND_TO_LINE_PLOT_FUNC)
    THEN [error |-> "InvalidPlottingBackendError",
          message |-> [value |-> name,
                       alternatives |-> Range(BACKEND_TO_LINE_PLOT_FUNC)],
          events |-> << >>, fig |-> NoFig]
    ELSE IF ~RenderGuard(name, installed)
    THEN [error |-> "NotInstalledError", message |-> NoMessage,
          events |-> << "render:" \o name >>, fig |-> NoFig]
    ELSE [error |-> "none", message |-> NoMessage,
          events |-> << "render:" \o name >>, fig |-> Render(name, lines)]

\* ------------------------------------------------------------ call results
\* What a call leaves behind: the error it raised ("none" when it returned),
\* the value and the alternatives the error message names, the calls it made
\* in order, and everything it computed.
Blank ==
    [error |-> "none", message |-> NoMessage, events |-> << >>,
     solution_times |-> EmptyTable, alphas |-> << >>, lines |-> << >>,
     deviations |-> << >>, fig |-> NoFig, long_times |-> {}]

\* the outcome of line_plot as the last step of a plotting call
Plotted(r, lines, name, installed) ==
    LET drawn == line_plot(lines, name, installed)
    IN [r EXCEPT !.lines = lines,
                 !.error = drawn.error,
                 !.message = drawn.message,
                 !.events = r.events \o << "line_plot" >> \o drawn.events,
                 !.fig = drawn.fig]

\* ------------------------------------------------------------ profile_plot
ProfileMeasures == {"walltime", "n_evaluations", "n_batches"}

\* lines 112-121: one LineData per algorithm, in the order of groupby
ProfileLines(t, alphas) ==
    LET names == SortedNames(t.columns)
    IN [i \in 1..Len(names) |->
           LineData(Dedup(alphas), performance_profiles(t, alphas)[names[i]],
                    names[i], PaletteCycle(i))]

\* profile_plot, given what process_benchmark_results returns (tidy, conv)
profile_plot(tidy, conv, name, measure, normalize, criterion, installed) ==
    IF criterion = "None"
    THEN [Blank EXCEPT !.error = "ValueError"]
    ELSE IF measure \notin ProfileMeasures
    THEN [Blank EXCEPT !.error = "ValueError",
                       !.message = [value |-> measure,
                                    alternatives |-> {"walltime", "n_evaluations"}]]
    ELSE
      LET created == create_solution_times(tidy, measure, conv, TRUE)
          times == IF normalize THEN Normalize(created, conv) ELSE created
          grid == determine_alpha_grid(times)
          before == << "process_benchmark_results", "create_solution_times",
                       "_determine_alpha_grid" >>
      IN IF grid.error # "none"
         THEN [Blank EXCEPT !.error = grid.error, !.events = before,
                            !.solution_times = times]
         ELSE Plotted([Blank EXCEPT !.events = before \o << "groupby" >>,
                                    !.solution_times = times,
                                    !.alphas = grid.alphas],
                      ProfileLines(times, grid.alphas), name, installed)

\* ---------------------------------------------------------- deviation_plot
\* the columns of the tidy table that can serve as runtime measure
RuntimeColumns == {"n_evaluations", "n_batches", "walltime"}
\* those of them that hold integers
IntegerColumns == {"n_evaluations", "n_batches"}

\* df.groupby(["problem", "algorithm", runtime_measure]).min()[outcome]
GroupMin(tidy, p, a, r) ==
    LET group == {q.outcome : q \in {x \in tidy : x.problem = p /\ x.algorithm = a
                                                  /\ x.runtime = r}}
    IN IF group = {} THEN NAN ELSE Num(Min(group), 0)

\* pd.MultiIndex.from_product([problems, algorithms, range(lo, hi + 1)])
FromProduct(ps, as, lo, hi) ==
    LET nr == hi - lo + 1
        na == Len(as)
    IN [i \in 1..(Len(ps) * na * nr) |->
          [problem |-> ps[((i - 1) \div (na * nr)) + 1],
           algorithm |-> as[(((i - 1) \div nr) % na) + 1],
           runtime |-> lo + ((i - 1) % nr)]]

\* Series.ffill(): a missing value takes the last value before it in the Series
RECURSIVE FfillFrom(_, _)
FfillFrom(s, last) ==
    IF s = << >> THEN << >>
    ELSE LET h == IF Head(s).k = "nan" THEN last ELSE Head(s)
         IN << h >> \o FfillFrom(Tail(s), h)

ffill(s) == FfillFrom(s, NAN)

\* lines 60-75: the reindexed, forward-filled outcome, one row per index entry
Deviations(tidy, ps, as) ==
    LET lo == Min({q.runtime : q \in tidy})
        hi == Max({q.runtime : q \in tidy})
        index == FromProduct(ps, as, lo, hi)
        reindexed == [i \in 1..Len(index) |->
                        GroupMin(tidy, index[i].problem, index[i].algorithm,
                                 index[i].runtime)]
        filled == ffill(reindexed)
    IN [i \in 1..Len(index) |->
          [problem |-> index[i].problem, algorithm |-> index[i].algorithm,
           runtime |-> index[i].runtime, outcome |-> filled[i]]]

RECURSIVE SumOutcome(_)
SumOutcome(S) ==
    IF S = {} THEN 0
    ELSE LET d == CHOOSE x \in S : TRUE IN d.outcome.v + SumOutcome(S \ {d})

\* groupby(["algorithm", runtime_measure]).mean(): the mean of the values
\* that are not missing, kept as sum / n; n = 0 is a missing mean
MeanAt(deviations, a, r) ==
    LET terms == {d \in Range(deviations) :
                     d.algorithm = a /\ d.runtime = r /\ d.outcome.k = "num"}
    IN [sum |-> SumOutcome(terms), n |-> Cardinality(terms)]

\* lines 85-92: one LineData per algorithm, in the order of groupby
DeviationLines(deviations) ==
    LET names == SortedNames({d.algorithm : d \in Range(deviations)})
        lo == Min({d.runtime : d \in Range(deviations)})
        hi == Max({d.runtime : d \in Range(deviations)})
    IN [i \in 1..Len(names) |->
          LineData([j \in 1..(hi - lo + 1) |-> lo + j - 1],
                   [j \in 1..(hi - lo + 1) |-> MeanAt(deviations, names[i], lo + j - 1)],
                   names[i], PaletteCycle(i))]

\* deviation_plot, given the tidy table process_benchmark_results returns and
\* df["problem"].unique(), df["algorithm"].unique() of it
deviation_plot(tidy, ps, as, name, measure, installed) ==
    IF measure \notin RuntimeColumns
    THEN [Blank EXCEPT !.error = "KeyError",
                       !.events = << "process_benchmark_results", "groupby" >>]
    ELSE IF measure \notin IntegerColumns
    THEN [Blank EXCEPT !.error = "TypeError",
                       !.events = << "process_benchmark_results", "groupby" >>]
    ELSE Plotted([Blank EXCEPT !.events = << "process_benchmark_results", "groupby",
                                             "reindex", "ffill", "groupby" >>,
                               !.deviations = Deviations(tidy, ps, as)],
                 DeviationLines(Deviations(tidy, ps, as)), name, installed)

\* ------------------------------------------------------------------- state
VARIABLES
    df,                 \* the tidy table process_benchmark_results returns
    converged_info,     \* its converged flags, per (problem, algorithm)
    problem_unique,     \* df["problem"].unique()
    algorithm_unique,   \* df["algorithm"].unique()
    backend,            \* argument backend
    runtime_measure,    \* argument runtime_measure
    normalize_runtime,  \* argument normalize_runtime
    stopping_criterion, \* argument stopping_criterion ("None" for None)
    lines_in,           \* argument lines of a direct line_plot call
    installed,          \* IS_<LIB>_INSTALLED per optional library
    pc,                 \* "start" before the call, "done" after it
    called,             \* the function that was called
    return_tidy,        \* argument return_tidy of create_solution_times
    out                 \* what the call left behind (see Blank)

args == << df, converged_info, problem_unique, algorithm_unique, backend,
           runtime_measure, normalize_runtime, stopping_criterion, lines_in,
           installed >>
vars == << df, converged_info, problem_unique, algorithm_unique, backend,
           runtime_measure, normalize_runtime, stopping_criterion, lines_in,
           installed, pc, called, return_tidy, out >>

ProblemsOf(tidy) == {r.problem : r \in tidy}
AlgorithmsOf(tidy) == {r.algorithm : r \in tidy}

\* the orders in which the elements of S can first appear
Orders(S) ==
    {s \in [1..Cardinality(S) -> S] : \A i, j \in 1..Cardinality(S) : s[i] = s[j] => i = j}

\* the tidy tables of at most MaxRows rows
RECURSIVE SubsetsUpTo(_, _)
SubsetsUpTo(S, n) ==
    IF n = 0 THEN {{}}
    ELSE SubsetsUpTo(S, n - 1) \cup {t \cup {x} : t \in SubsetsUpTo(S, n - 1), x \in S}

TidyTables(rows) == SubsetsUpTo(rows, MaxRows) \ {{}}

\* seaborn is built on matplotlib: it is never installed without it
Installations ==
    {i \in [{"matplotlib", "seaborn", "bokeh", "altair"} -> BOOLEAN] :
        i["seaborn"] => i["matplotlib"]}
AllInstalled == [n \in {"matplotlib", "seaborn", "bokeh", "altair"} |-> TRUE]

Backends == Range(BACKEND_TO_LINE_PLOT_FUNC) \cup {"unsupported_lib"}

\* a small tidy table for the calls whose data is not the point
SampleDf ==
    {[problem |-> "p1", algorithm |-> "a1", runtime |-> 1, outcome |-> 1],
     [problem |-> "p1", algorithm |-> "a2", runtime |-> 2, outcome |-> 0]}

LineInputs ==
    [x : {<< 1 >>}, y : {<< 1 >>}, name : Algorithms, color : Colors,
     show_in_legend : BOOLEAN]

RECURSIVE SeqsUpTo(_, _)
SeqsUpTo(S, n) ==
    IF n = 0 THEN {<< >>}
    ELSE SeqsUpTo(S, n - 1) \cup {Append(s, x) : s \in SeqsUpTo(S, n - 1), x \in S}

InitCall ==
    /\ pc = "start"
    /\ called = "none"
    /\ return_tidy = TRUE
    /\ out = Blank

\* calls of profile_plot and create_solution_times over every tidy table
InitProfile ==
    /\ df \in TidyTables({r \in Rows : r.outcome = 0})
    /\ converged_info \in [ProblemsOf(df) \X AlgorithmsOf(df) -> BOOLEAN]
    /\ problem_unique = SortedNames(ProblemsOf(df))
    /\ algorithm_unique = SortedNames(AlgorithmsOf(df))
    /\ backend = "plotly"
    /\ runtime_measure = "n_evaluations"
    /\ normalize_runtime \in BOOLEAN
    /\ stopping_criterion = "y"
    /\ lines_in = << >>
    /\ installed = AllInstalled
    /\ InitCall

\* calls of deviation_plot over every tidy table, in every row order
InitDeviation ==
    /\ df \in TidyTables(Rows)
    /\ converged_info = [c \in ProblemsOf(df) \X AlgorithmsOf(df) |-> TRUE]
    /\ problem_unique \in Orders(ProblemsOf(df))
    /\ algorithm_unique \in Orders(AlgorithmsOf(df))
    /\ backend = "plotly"
    /\ runtime_measure \in IntegerColumns
    /\ normalize_runtime = FALSE
    /\ stopping_criterion = "y"
    /\ lines_in = << >>
    /\ installed = AllInstalled
    /\ InitCall

\* calls of line_plot with every backend string and installation
InitBackend ==
    /\ df = SampleDf
    /\ converged_info = [c \in ProblemsOf(df) \X AlgorithmsOf(df) |-> TRUE]
    /\ problem_unique = SortedNames(ProblemsOf(df))
    /\ algorithm_unique = SortedNames(AlgorithmsOf(df))
    /\ backend \in Backends
    /\ runtime_measure = "n_evaluations"
    /\ normalize_runtime = FALSE
    /\ stopping_criterion = "y"
    /\ lines_in \in SeqsUpTo(LineInputs, MaxLines)
    /\ installed \in Installations
    /\ InitCall

\* plotting calls with every configuration
InitConfig ==
    /\ df = SampleDf
    /\ converged_info \in [ProblemsOf(df) \X AlgorithmsOf(df) -> BOOLEAN]
    /\ problem_unique = SortedNames(ProblemsOf(df))
    /\ algorithm_unique = SortedNames(AlgorithmsOf(df))
    /\ backend \in Backends
    /\ runtime_measure \in RuntimeColumns \cup {"n_steps"}
    /\ normalize_runtime \in BOOLEAN
    /\ stopping_criterion \in {"None", "y"}
    /\ lines_in = << >>
    /\ installed \in Installations
    /\ InitCall

\* ----------------------------------------------------------------- actions
ProfilePlot ==
    /\ pc = "start"
    /\ pc' = "done"
    /\ called' = "profile_plot"
    /\ out' = profile_plot(df, converged_info, backend, runtime_measure,
                           normalize_runtime, stopping_criterion, installed)
    /\ UNCHANGED << args, return_tidy >>

DeviationPlot ==
    /\ pc = "start"
    /\ pc' = "done"
    /\ called' = "deviation_plot"
    /\ out' = deviation_plot(df, problem_unique, algorithm_unique, backend,
                             runtime_measure, installed)
    /\ UNCHANGED << args, return_tidy >>

CreateSolutionTimes ==
    /\ pc = "start"
    /\ pc' = "done"
    /\ called' = "create_solution_times"
    /\ \E tidy \in BOOLEAN :
          /\ return_tidy' = tidy
          /\ out' = IF tidy
                    THEN [Blank EXCEPT !.solution_times =
                             create_solution_times(df, runtime_measure, converged_info, TRUE)]
                    ELSE [Blank EXCEPT !.long_times =
                             create_solution_times(df, runtime_measure, converged_info, FALSE)]
    /\ UNCHANGED args

LinePlot ==
    /\ pc = "start"
    /\ pc' = "done"
    /\ called' = "line_plot"
    /\ out' = Plotted(Blank, lines_in, backend, installed)
    /\ UNCHANGED << args, return_tidy >>

NextProfile == ProfilePlot \/ CreateSolutionTimes
NextDeviation == DeviationPlot
NextBackend == LinePlot
NextConfig == ProfilePlot \/ DeviationPlot

SpecProfile == InitProfile /\ [][NextProfile]_vars
SpecDeviation == InitDeviation /\ [][NextDeviation]_vars
SpecBackend == InitBackend /\ [][NextBackend]_vars
SpecConfig == InitConfig /\ [][NextConfig]_vars

Init == InitProfile
Next == NextProfile
Spec == SpecProfile

\* ================================================================== claims
Done(f) == pc = "done" /\ called = f

\* the solution time of a pair as the tidy table gives it: the largest
\* runtime of its rows (0 when it has none)
Observed(p, a) == {r.runtime : r \in {q \in df : q.problem = p /\ q.algorithm = a}}
Converged(p, a) == Observed(p, a) # {} /\ converged_info[<<p, a>>]

\* ---- C1
\* C1: every (problem, algorithm) entry of the solution-time table whose
\* converged flag is false is +infinity, in the table create_solution_times
\* returns (either shape) and in the table profile_plot uses, normalized or not.
C1_NotConvergedIsInf ==
    (pc = "done" /\ called \in {"profile_plot", "create_solution_times"}) =>
        /\ \A c \in DOMAIN out.solution_times.val :
              ~converged_info[c] => out.solution_times.val[c] = INF
        /\ \A r \in out.long_times :
              ~converged_info[<<r.problem, r.algorithm>>] => r.runtime = INF
        /\ (called = "profile_plot" \/ return_tidy) =>
              DOMAIN out.solution_times.val = ProblemsOf(df) \X AlgorithmsOf(df)

\* a normalized table with a problem no algorithm solved, next to a solved one
C1_Witness ==
    /\ Done("profile_plot")
    /\ normalize_runtime
    /\ out.error = "none"
    /\ Cardinality(out.solution_times.columns) = 2
    /\ \E p \in out.solution_times.index :
          \A a \in out.solution_times.columns :
             ~converged_info[<<p, a>>] /\ out.solution_times.val[<<p, a>>] = INF

\* ---- C2
\* C2: for every algorithm the performance-profile values over the ascending
\* alpha grid are non-decreasing and lie in [0, 1], also when the table holds
\* +infinity entries.
C2_ProfileMonotoneBounded ==
    (Done("profile_plot") /\ out.error = "none") =>
        /\ Len(out.lines) = Cardinality(AlgorithmsOf(df))
        /\ \A i \in 1..Len(out.lines) :
              LET x == out.lines[i].x
                  y == out.lines[i].y
              IN /\ Len(x) = Len(y)
                 /\ Len(y) >= 1
                 /\ \A j \in 1..Len(y) :
                       y[j].den > 0 /\ 0 <= y[j].num /\ y[j].num <= y[j].den
                 /\ \A j \in 1..Len(y) - 1 :
                       /\ Leq(x[j], x[j + 1])
                       /\ y[j].num * y[j + 1].den <= y[j + 1].num * y[j].den

\* a profile that rises along the grid although the table holds +infinity
C2_Witness ==
    /\ Done("profile_plot")
    /\ out.error = "none"
    /\ \E c \in DOMAIN out.solution_times.val : out.solution_times.val[c] = INF
    /\ \E i \in 1..Len(out.lines) :
          LET y == out.lines[i].y
          IN /\ y[1].num = 0
             /\ y[Len(y)].num > 0
             /\ y[Len(y)].num < y[Len(y)].den

\* ---- C3
\* the distinct finite values of the table profile_plot uses
FiniteValues == {v \in {out.solution_times.val[c] : c \in DOMAIN out.solution_times.val} :
                    v.k = "num"}

\* C3: with k >= 1 distinct finite (positive) values in the table, the alpha
\* grid has 2k+1 entries: the k switch points (the values nudged by 1e-10),
\* one point 5% beyond the last of them, and the midpoints of consecutive
\* ones; it is strictly ascending.
C3_AlphaGridShape ==
    (Done("profile_plot") /\ Cardinality(FiniteValues) >= 1) =>
        LET k == Cardinality(FiniteValues)
            a == out.alphas
        IN /\ out.error = "none"
           /\ Len(a) = 2 * k + 1
           /\ Len(a) >= 3
           /\ \A i \in 1..Len(a) - 1 : Leq(a[i], a[i + 1]) /\ a[i] # a[i + 1]
           /\ {a[2 * i - 1] : i \in 1..k} = {Num(v.v, v.e + Fine) : v \in FiniteValues}
           /\ a[2 * k + 1].v * 100 = a[2 * k - 1].v * 105
           /\ a[2 * k + 1].e * 100 = a[2 * k - 1].e * 105
           /\ \A i \in 1..k :
                 /\ 2 * a[2 * i].v = a[2 * i - 1].v + a[2 * i + 1].v
                 /\ 2 * a[2 * i].e = a[2 * i - 1].e + a[2 * i + 1].e

\* a normalized table with at least two distinct finite values
C3_Witness ==
    /\ Done("profile_plot")
    /\ normalize_runtime
    /\ Cardinality(FiniteValues) >= 2
    /\ Len(out.alphas) = 2 * Cardinality(FiniteValues) + 1

\* ---- C4
\* every cell of the table profile_plot uses holds the same finite value
AllIdentical ==
    /\ Done("profile_plot")
    /\ Cardinality(DOMAIN out.solution_times.val) >= 2
    /\ Cardinality(FiniteValues) = 1
    /\ \A c \in DOMAIN out.solution_times.val : out.solution_times.val[c].k = "num"

\* C4 as stated: with identical finite solution times the grid is one switch
\* point, its extension and their midpoint, and every profile over that grid
\* jumps from 0 to 1.
C4_Original ==
    AllIdentical =>
        /\ out.error = "none"
        /\ Len(out.alphas) = 3
        /\ \A i \in 1..Len(out.lines) :
              LET y == out.lines[i].y
              IN \E j \in 1..Len(y) - 1 : y[j].num = 0 /\ y[j + 1].num = y[j + 1].den

\* C4 (amended): with identical finite solution times t the grid is computed
\* without error and is exactly (t + 1e-10, the midpoint, 1.05 (t + 1e-10));
\* every profile is 1 at each of the three grid points, because the step
\* from 0 to 1 lies at t, below the first grid point.
C4_IdenticalTimes ==
    AllIdentical =>
        LET t == CHOOSE v \in FiniteValues : TRUE
            s == Num(t.v, t.e + Fine)
            e == Num((s.v * 105) \div 100, (s.e * 105) \div 100)
        IN /\ out.error = "none"
           /\ out.alphas = << s, Num((s.v + e.v) \div 2, (s.e + e.e) \div 2), e >>
           /\ ~Leq(s, t)
           /\ \A i \in 1..Len(out.lines) :
                 /\ Len(out.lines[i].y) = 3
                 /\ \A j \in 1..3 : out.lines[i].y[j].num = out.lines[i].y[j].den

\* two algorithms with the same solution time on every problem
C4_Witness ==
    /\ AllIdentical
    /\ Len(out.lines) = 2
    /\ out.fig.backend = "plotly"

\* ---- C5
\* the value of the series (p, a) at its latest observed runtime <= r: the
\* minimum over the rows at that runtime, missing without such a row
OwnLatest(p, a, r) ==
    LET seen == {q \in df : q.problem = p /\ q.algorithm = a /\ q.runtime <= r}
    IN IF seen = {} THEN NAN
       ELSE Num(Min({q.outcome : q \in {x \in seen :
                         x.runtime = Max({z.runtime : z \in seen})}}), 0)

\* C5: after reindexing onto [global min, global max] every (problem,
\* algorithm) series holds at runtime r its own value at its latest observed
\* runtime <= r and is missing when it has none; a missing value is never
\* filled from another series and adds no term to the per-algorithm mean.
C5_ForwardFillWithinSeries ==
    (Done("deviation_plot") /\ out.error = "none") =>
        /\ \A i \in 1..Len(out.deviations) :
              LET d == out.deviations[i]
              IN d.outcome = OwnLatest(d.problem, d.algorithm, d.runtime)
        /\ \A i \in 1..Len(out.lines) :
              \A j \in 1..Len(out.lines[i].x) :
                 out.lines[i].y[j].n =
                    Cardinality({p \in ProblemsOf(df) :
                        OwnLatest(p, out.lines[i].name, out.lines[i].x[j]).k = "num"})

\* ---- C6
\* C6: with normalize_runtime=True, for every problem with a converged
\* algorithm the fastest converged algorithm's normalized time is exactly 1
\* and every other converged algorithm's is its time divided by the fastest
\* one, hence >= 1.
C6_NormalizedByRowMinimum ==
    (Done("profile_plot") /\ normalize_runtime) =>
        \A p \in ProblemsOf(df) :
           LET solved == {a \in AlgorithmsOf(df) : Converged(p, a)}
               fastest == Min({Max(Observed(p, a)) : a \in solved})
           IN solved # {} =>
                 \A a \in solved :
                    LET n == out.solution_times.val[<<p, a>>]
                    IN /\ n.k = "num"
                       /\ n.e = 0
                       /\ n.v * fastest = Max(Observed(p, a)) * Unit
                       /\ n.v >= Unit
                       /\ (Max(Observed(p, a)) = fastest => n = Num(Unit, 0))

\* a problem solved in 2 evaluations by one algorithm and in 3 by the other
C6_Witness ==
    /\ Done("profile_plot")
    /\ normalize_runtime
    /\ \E p \in ProblemsOf(df) :
          \E a, b \in AlgorithmsOf(df) :
             /\ Converged(p, a) /\ Max(Observed(p, a)) = 2
             /\ Converged(p, b) /\ Max(Observed(p, b)) = 3
             /\ out.solution_times.val[<<p, a>>] = Num(Unit, 0)
             /\ 2 * out.solution_times.val[<<p, b>>].v = 3 * Unit

\* ---- C7
\* rows.pivot(index="problem", columns="algorithm", values=runtime_measure)
Pivot(rows) ==
    Table({r.problem : r \in rows}, {r.algorithm : r \in rows},
          [c \in {r.problem : r \in rows} \X {r.algorithm : r \in rows} |->
              IF \E r \in rows : r.problem = c[1] /\ r.algorithm = c[2]
              THEN (CHOOSE r \in rows : r.problem = c[1] /\ r.algorithm = c[2]).runtime
              ELSE NAN])

\* C7: pivoting the long output of create_solution_times(return_tidy=False)
\* back to a problem-by-algorithm table gives exactly the output of
\* create_solution_times(return_tidy=True), +infinity entries included.
C7_PivotRoundTrip ==
    (Done("create_solution_times") /\ ~return_tidy) =>
        /\ Pivot(out.long_times) =
              create_solution_times(df, runtime_measure, converged_info, TRUE)
        /\ \A r, q \in out.long_times :
              (r.problem = q.problem /\ r.algorithm = q.algorithm) => r = q

\* a long output holding a finite row and the +infinity row of a pair that
\* did not converge
C7_Witness ==
    /\ Done("create_solution_times")
    /\ ~return_tidy
    /\ \E r \in out.long_times : r.runtime = INF
    /\ \E r \in out.long_times : r.runtime.k = "num"

\* ---- C8
FiveBackends == {"plotly", "matplotlib", "seaborn", "bokeh", "altair"}
Rendered == \E i \in 1..Len(out.events) : out.events[i] = "render:" \o backend

\* C8: the registry holds exactly the five names whatever is installed; a
\* backend string outside it raises the invalid-backend error, whose message
\* lists all five names, and no render function runs; a registered backend
\* whose library is absent raises the not-installed error, never the
\* invalid-backend error, and only from inside its render function.
C8_BackendResolution ==
    /\ Range(BACKEND_TO_LINE_PLOT_FUNC) = FiveBackends
    /\ Done("line_plot") =>
          /\ backend \notin FiveBackends =>
                /\ out.error = "InvalidPlottingBackendError"
                /\ out.message.alternatives = FiveBackends
                /\ out.message.value = backend
                /\ out.events = << "line_plot" >>
                /\ out.fig = NoFig
          /\ backend \in FiveBackends =>
                /\ out.error # "InvalidPlottingBackendError"
                /\ Rendered
                /\ (backend # "plotly" /\ ~installed[backend]) <=>
                      out.error = "NotInstalledError"
                /\ out.error = "none" => out.fig.backend = backend

\* bokeh is selected and not installed
C8_Witness ==
    /\ Done("line_plot")
    /\ backend = "bokeh"
    /\ ~installed["bokeh"]
    /\ installed["matplotlib"]
    /\ out.error = "NotInstalledError"

\* ---- C9
\* the call's configuration is invalid for the function that was called
BadConfiguration ==
    \/ /\ called = "profile_plot"
       /\ stopping_criterion = "None" \/ runtime_measure \notin ProfileMeasures
    \/ /\ called = "deviation_plot"
       /\ runtime_measure \notin IntegerColumns

\* C9: a plotting call with a missing stopping_criterion or a runtime_measure
\* outside the set recognized for that function raises the configuration
\* error before process_benchmark_results, any grouping and the backend
\* dispatch are reached.
C9_ConfigurationErrorFirst ==
    (pc = "done" /\ BadConfiguration) =>
        /\ out.error = "ValueError"
        /\ out.events = << >>

\* ---- C10
\* C10: each render function draws, for every LineData entry, exactly one
\* line in the entry's color; a line listed in the legend is listed under
\* the entry's name, and only if the entry's show_in_legend flag is true.
C10_OneLinePerEntry ==
    (Done("line_plot") /\ out.error = "none") =>
        /\ Len(out.fig.traces) = Len(lines_in)
        /\ \A i \in 1..Len(out.fig.traces) :
              /\ out.fig.traces[i].color = lines_in[i].color
              /\ out.fig.traces[i].legend =>
                    /\ lines_in[i].show_in_legend
                    /\ out.fig.traces[i].label = lines_in[i].name

\* ---- C11
\* some (problem, algorithm) pair of the tidy table converged
SomeConverged == \E p \in ProblemsOf(df) : \E a \in AlgorithmsOf(df) : Converged(p, a)

\* C11: profile_plot yields an alpha grid, lines and a chart only when at
\* least one (problem, algorithm) pair converged; when no pair converged the
\* table holds no finite value, _determine_alpha_grid fails with an
\* IndexError on the last switch point, and the call ends there: no line is
\* built and line_plot is never reached.
C11_NoConvergedPairRaises ==
    Done("profile_plot") =>
        /\ SomeConverged <=> out.error = "none"
        /\ ~SomeConverged <=> out.error = "IndexError"
        /\ SomeConverged =>
              /\ out.alphas # << >>
              /\ out.lines # << >>
              /\ out.fig.backend = backend
        /\ ~SomeConverged =>
              /\ \A c \in DOMAIN out.solution_times.val :
                    out.solution_times.val[c].k # "num"
              /\ out.alphas = << >>
              /\ out.lines = << >>
              /\ out.fig = NoFig
              /\ out.events = << "process_benchmark_results", "create_solution_times",
                                 "_determine_alpha_grid" >>

\* a table of two algorithms in which every entry is +infinity
C11_Witness ==
    /\ Done("profile_plot")
    /\ Cardinality(DOMAIN out.solution_times.val) >= 2
    /\ \A c \in DOMAIN out.solution_times.val : out.solution_times.val[c] = INF
    /\ out.error = "IndexError"
    /\ out.lines = << >>

====
